---- MODULE Spec2Model ----
(***************************************************************************)
(* The telephony-to-voice-agent audio bridge of phone_ai:                  *)
(*   backend/audiosocket_server.py  (AudioSocketServer and the transcoder) *)
(*   backend/elevenlabs_conv_ai.py  (ElevenLabsConvAI, the agent session)  *)
(* One session (one call of handle_connection) is modelled with its two    *)
(* asyncio tasks, the telephony peer and the remote agent.                 *)
(***************************************************************************)
EXTENDS Integers, Sequences, FiniteSets, TLC

(***************************************************************************)
(* Bounds of the model.                                                    *)
(***************************************************************************)
MaxInputs == 3
MaxKeepalive == 1
MaxCalls == 2
MaxSilent == 4
MaxConns == 2
MaxOps == 4

(***************************************************************************)
(* Program constants.                                                      *)
(***************************************************************************)
HANGUP == 0
UUID == 1
AUDIO == 16
PAD == 64
SILENCE_LEN == 160
chunk_size == 160
BIAS == 132
CLIP == 8159

None == "None"

(***************************************************************************)
(* Helpers on sequences of bytes.                                          *)
(***************************************************************************)
Min(a, b) == IF a < b THEN a ELSE b

Take(s, n) == SubSeq(s, 1, Min(n, Len(s)))

Drop(s, n) == SubSeq(s, Min(n, Len(s)) + 1, Len(s))

Zeros(n) == [i \in 1..n |-> 0]

RECURSIVE Pow2(_)
Pow2(n) == IF n = 0 THEN 1 ELSE 2 * Pow2(n - 1)

RECURSIVE Concat(_)
Concat(ss) == IF ss = <<>> THEN <<>> ELSE Head(ss) \o Concat(Tail(ss))

\* floating point value x/2 converted with astype(int16): truncation toward zero
TruncHalf(x) == IF x >= 0 THEN x \div 2 ELSE -((-x) \div 2)

\* a signed 16-bit sample as two little-endian bytes, and back
SampleBytes(v) == LET u == v % 65536 IN <<u % 256, u \div 256>>

SampleOf(lo, hi) == LET u == hi * 256 + lo IN IF u >= 32768 THEN u - 65536 ELSE u

Samples(pcm) == [i \in 1..(Len(pcm) \div 2) |-> SampleOf(pcm[2 * i - 1], pcm[2 * i])]

PcmBytes(samples) ==
    [k \in 1..(2 * Len(samples)) |-> SampleBytes(samples[(k + 1) \div 2])[2 - (k % 2)]]

(***************************************************************************)
(* Frame codec: struct.pack('!BH', type, length) + payload.                *)
(***************************************************************************)
pack_BH(t, n) == <<t, n \div 256, n % 256>>

unpack_BH(h) == [type |-> h[1], length |-> h[2] * 256 + h[3]]

encodeFrame(t, p) == pack_BH(t, Len(p)) \o p

\* (a variant of silence that is the header alone)
silence_header_only == pack_BH(AUDIO, SILENCE_LEN)

silence == pack_BH(AUDIO, SILENCE_LEN) \o Zeros(SILENCE_LEN)

(***************************************************************************)
(* Audio transcoder.                                                       *)
(***************************************************************************)
\* audioop.ulaw2lin(data, 2): one G.711 mu-law byte to one linear sample
ulaw2linear(b) ==
    LET u == 255 - b
        t == (((u % 16) * 8) + BIAS) * Pow2((u % 128) \div 16)
    IN  IF u >= 128 THEN BIAS - t ELSE t - BIAS

ulaw_to_pcm16(ulaw_data) ==
    PcmBytes([i \in 1..Len(ulaw_data) |-> ulaw2linear(ulaw_data[i])])

\* audioop's segment search over seg_uend = 0x3F, 0x7F, ..., 0x1FFF
RECURSIVE search(_, _)
search(val, seg) ==
    IF seg >= 8 THEN 8
    ELSE IF val <= 64 * Pow2(seg) - 1 THEN seg ELSE search(val, seg + 1)

\* (a variant of linear2ulaw that compands the 16-bit sample without reducing it)
linear2ulaw_unreduced(sample) ==
    LET mag0 == IF sample < 0 THEN -sample ELSE sample
        mask == IF sample < 0 THEN 127 ELSE 255
        mag == Min(mag0, CLIP) + (BIAS \div 4)
        seg == search(mag, 0)
        uval == IF seg >= 8 THEN 127
                ELSE seg * 16 + ((mag \div Pow2(seg + 1)) % 16)
    IN  mask - uval

\* audioop.lin2ulaw(data, 2): the sample is reduced to 14 bits (>> 2) and companded
linear2ulaw(sample) ==
    LET v14 == sample \div 4
        mag0 == IF v14 < 0 THEN -v14 ELSE v14
        mask == IF v14 < 0 THEN 127 ELSE 255
        mag == Min(mag0, CLIP) + (BIAS \div 4)
        seg == search(mag, 0)
        uval == IF seg >= 8 THEN 127
                ELSE seg * 16 + ((mag \div Pow2(seg + 1)) % 16)
    IN  \* uval ^ mask, where uval <= 0x7F lies under the mask
        mask - uval

\* an odd number of bytes is "not a whole number of frames": audioop.error
pcm16_to_ulaw_ok(pcm_data) == Len(pcm_data) % 2 = 0

pcm16_to_ulaw(pcm_data) ==
    LET s == Samples(pcm_data) IN [i \in 1..Len(s) |-> linear2ulaw(s[i])]

\* np.frombuffer(.., dtype=np.int16) needs whole samples; the FFT needs >= 1 point
resample_8k_to_16k_ok(audio_8k) == Len(audio_8k) % 2 = 0 /\ Len(audio_8k) >= 2

\* signal.resample(x, 2 * len(x)).astype(np.int16).  The Fourier interpolant keeps
\* the input samples; between two of them it is, for one or two samples, exactly
\* their (circular) mean.  For longer buffers the value between is an irrational
\* combination rounded in floating point: the mean stands for it, and only the
\* length of such a buffer is relied on.
resample_8k_to_16k(audio_8k) ==
    LET x == Samples(audio_8k)
        n == Len(x)
    IN  PcmBytes([k \in 1..(2 * n) |->
                    IF k % 2 = 1 THEN x[(k + 1) \div 2]
                    ELSE TruncHalf(x[k \div 2] + x[((k \div 2) % n) + 1])])

\* (a variant of resample_16k_to_8k that returns the samples it was given)
resample_16k_to_8k_unhalved(audio_16k) == audio_16k

\* len(x) // 2 output points: none for a single sample (irfft of 0 points raises)
resample_16k_to_8k_ok(audio_16k) == Len(audio_16k) % 2 = 0 /\ Len(audio_16k) >= 4

\* signal.resample(x, len(x) // 2).astype(np.int16): exact for two samples (their
\* mean) and for four (the spectrum of four points has rational coefficients).
\* For longer buffers the pairwise mean stands for the rounded value, and only the
\* length is relied on.
resample_16k_to_8k(audio_16k) ==
    LET x == Samples(audio_16k)
        n == Len(x)
        q(v) == IF v >= 0 THEN v \div 4 ELSE -((-v) \div 4)
    IN  IF n = 4
        THEN PcmBytes(<<q(3 * x[1] + x[2] - x[3] + x[4]),
                        q(x[2] - x[1] + 3 * x[3] + x[4])>>)
        ELSE PcmBytes([k \in 1..(n \div 2) |-> TruncHalf(x[2 * k - 1] + x[2 * k])])

(***************************************************************************)
(* base64, as the agent protocol carries audio.  A character is its index  *)
(* in the base64 alphabet; PAD is '='.                                     *)
(***************************************************************************)
\* the byte of bs at index i, 0 past its end
ByteAt(bs, i) == IF i <= Len(bs) THEN bs[i] ELSE 0

\* base64.b64encode: three bytes make four characters, the last group is padded
b64encode(bs) ==
    [j \in 1..(4 * ((Len(bs) + 2) \div 3)) |->
        LET g == (j - 1) \div 4
            b1 == ByteAt(bs, 3 * g + 1)
            b2 == ByteAt(bs, 3 * g + 2)
            b3 == ByteAt(bs, 3 * g + 3)
        IN  CASE (j - 1) % 4 = 0 -> b1 \div 4
              [] (j - 1) % 4 = 1 -> (b1 % 4) * 16 + b2 \div 16
              [] (j - 1) % 4 = 2 -> IF 3 * g + 2 > Len(bs) THEN PAD
                                    ELSE (b2 % 16) * 4 + b3 \div 64
              [] (j - 1) % 4 = 3 -> IF 3 * g + 3 > Len(bs) THEN PAD ELSE b3 % 64]

\* binascii.Error ("Incorrect padding") unless the text is whole groups of four
b64decode_ok(cs) == Len(cs) % 4 = 0

\* the value of a base64 character, padding counting as no bits
Sextet(c) == IF c = PAD THEN 0 ELSE c

\* base64.b64decode: four characters make three bytes, less the padded ones
b64decode(cs) ==
    LET n == Len(cs)
        pads == IF n = 0 THEN 0
                ELSE IF cs[n - 1] = PAD THEN 2
                ELSE IF cs[n] = PAD THEN 1 ELSE 0
    IN  [i \in 1..(3 * (n \div 4) - pads) |->
            LET g == (i - 1) \div 3
                c1 == Sextet(cs[4 * g + 1])
                c2 == Sextet(cs[4 * g + 2])
                c3 == Sextet(cs[4 * g + 3])
                c4 == Sextet(cs[4 * g + 4])
            IN  CASE (i - 1) % 3 = 0 -> c1 * 4 + c2 \div 16
                  [] (i - 1) % 3 = 1 -> (c2 % 16) * 16 + c3 \div 4
                  [] (i - 1) % 3 = 2 -> (c3 % 4) * 64 + c4]

(***************************************************************************)
(* Format dispatch of the two paths.                                       *)
(***************************************************************************)
\* (a variant of input_fmt_of that takes the default whatever was negotiated)
input_fmt_default(fmt) == "mulaw_8000"

\* receive_from_asterisk: getattr(elevenlabs, "user_input_audio_format", None) or "mulaw_8000"
input_fmt_of(fmt) == IF fmt = None THEN "mulaw_8000" ELSE fmt

\* (a variant of output_fmt_of whose default is the telephony format)
output_fmt_mulaw(fmt) == IF fmt = None THEN "mulaw_8000" ELSE fmt

\* send_to_asterisk: getattr(elevenlabs, "agent_output_audio_format", None) or "pcm_16000"
output_fmt_of(fmt) == IF fmt = None THEN "pcm_16000" ELSE fmt

\* whether the conversion of one telephony payload completes without raising
to_agent_ok(fmt, audio_data) ==
    IF input_fmt_of(fmt) = "pcm_16000"
    THEN resample_8k_to_16k_ok(ulaw_to_pcm16(audio_data))
    ELSE TRUE

\* (a variant of to_agent_payload that linearizes the payload whatever the format)
to_agent_payload_linearized(fmt, audio_data) == ulaw_to_pcm16(audio_data)

\* the payload handed to send_audio
to_agent_payload(fmt, audio_data) ==
    LET input_fmt == input_fmt_of(fmt)
    IN  IF input_fmt \in {"mulaw_8000", "ulaw_8000"} THEN audio_data
        ELSE IF input_fmt = "pcm_8000" THEN ulaw_to_pcm16(audio_data)
        ELSE IF input_fmt = "pcm_16000" THEN resample_8k_to_16k(ulaw_to_pcm16(audio_data))
        ELSE audio_data

\* whether the conversion of the agent's audio completes without raising
to_asterisk_ok(fmt, full_audio) ==
    LET output_fmt == output_fmt_of(fmt)
    IN  IF output_fmt \in {"mulaw_8000", "ulaw_8000"} THEN TRUE
        ELSE IF output_fmt = "pcm_8000" THEN pcm16_to_ulaw_ok(full_audio)
        ELSE resample_16k_to_8k_ok(full_audio)

\* audio_for_asterisk: an unsupported format falls back to the pcm_16000 path
to_asterisk_audio(fmt, full_audio) ==
    LET output_fmt == output_fmt_of(fmt)
    IN  IF output_fmt \in {"mulaw_8000", "ulaw_8000"} THEN full_audio
        ELSE IF output_fmt = "pcm_8000" THEN pcm16_to_ulaw(full_audio)
        ELSE pcm16_to_ulaw(resample_16k_to_8k(full_audio))

(***************************************************************************)
(* The environment: what the telephony peer and the agent may send.        *)
(***************************************************************************)
\* frames of the telephony peer: Hangup, SessionId, Audio (with two bytes of audio
\* and with none), and a frame of a type the bridge does not know (0x02) with a
\* one-byte payload
PeerFrames ==
    { [type |-> HANGUP, payload |-> <<>>],
      [type |-> UUID, payload |-> <<7, 9>>],
      [type |-> AUDIO, payload |-> <<10, 200>>],
      [type |-> AUDIO, payload |-> <<>>],
      [type |-> 2, payload |-> <<0>>] }

\* the first message of the agent: the initiation metadata with the negotiated
\* formats, or a message of another type
Welcomes ==
    { [type |-> "conversation_initiation_metadata", user_input_audio_format |-> f,
       agent_output_audio_format |-> f] : f \in {"mulaw_8000", "pcm_8000", "pcm_16000", "opus_48000"} }
    \cup { [type |-> "ping", user_input_audio_format |-> None,
            agent_output_audio_format |-> None] }

ShortAudio == <<16, 0, 240, 255>>

OtherAudio == <<1, 0, 2, 0>>

\* inbound agent messages, after json.loads; "malformed" is a message json.loads
\* raises on
AgentEvents ==
    { [type |-> "audio", audio_base_64 |-> b64encode(ShortAudio), text |-> <<>>, event_id |-> 1],
      [type |-> "audio", audio_base_64 |-> b64encode(OtherAudio), text |-> <<>>, event_id |-> 2],
      [type |-> "agent_response_end", audio_base_64 |-> <<>>, text |-> <<>>, event_id |-> 0],
      [type |-> "ping", audio_base_64 |-> <<>>, text |-> <<>>, event_id |-> 5],
      [type |-> "error", audio_base_64 |-> <<>>, text |-> <<>>, event_id |-> 0],
      [type |-> "malformed", audio_base_64 |-> <<>>, text |-> <<>>, event_id |-> 0] }

(***************************************************************************)
(* State.                                                                  *)
(***************************************************************************)
VARIABLES
    hc,                         \* handle_connection: "connect", "gather", "done"
    connected,                  \* what connect() returned: "pending", "yes", "no"
    ws,                         \* ElevenLabsConvAI.ws: "none", "open", "closed"
    user_input_audio_format,    \* ElevenLabsConvAI.user_input_audio_format
    agent_output_audio_format,  \* ElevenLabsConvAI.agent_output_audio_format
    agentUp,                    \* the remote end of the WebSocket is alive
    wsIn,                       \* agent messages in flight to the bridge
    nEvents,                    \* number of messages the agent has sent
    agentAudio,                 \* payloads of the audio events the agent has sent
    toAgent,                    \* messages the bridge has sent to the agent
    rx,                         \* telephony bytes received and not yet read
    eof,                        \* the telephony peer has closed the stream
    peerFrames,                 \* the whole frames the telephony peer has sent
    torn,                       \* the peer closed in the middle of a frame
    consumed,                   \* number of telephony bytes read by the bridge
    writerClosed,               \* the telephony transport has been closed
    toAsterisk,                 \* frames written to the telephony transport
    pc_r,                       \* receive_from_asterisk: position
    need,                       \* receive_from_asterisk: declared payload length
    frame_count,                \* receive_from_asterisk: frame_count
    nKeepalive,                 \* number of header read timeouts
    exit_r,                     \* how receive_from_asterisk ended
    hangupSeen,                 \* the frame loop has read a Hangup header
    pc_s,                       \* send_to_asterisk: position
    text,                       \* receive_response: text
    audio_chunks,               \* receive_response: audio_chunks
    cause,                      \* why receive_response returned
    audio_for_asterisk,         \* send_to_asterisk: audio_for_asterisk
    offset,                     \* send_to_asterisk: offset of the next chunk
    total_sent,                 \* send_to_asterisk: total_sent
    chunks_sent,                \* send_to_asterisk: chunks_sent
    exit_s,                     \* how send_to_asterisk ended
    tc_arg,                     \* transcoder called on its own: the buffer given
    tc_buf,                     \* the buffer after the calls made so far
    tc_hist,                    \* the functions called, in order
    tc_raised,                  \* the last call raised
    sessions,                   \* per accepted connection: the locals of its handle_connection
    objects,                    \* the ElevenLabsConvAI objects created, by identity
    active_supervisors,         \* SupervisorAI.active_supervisors
    conversation_history,       \* SupervisorAI.conversation_history
    sup_tasks,                  \* the tasks created by start_supervision, by identity
    sup_calls                   \* the calls made on the SupervisorAI object, in order

agentVars == <<ws, user_input_audio_format, agent_output_audio_format>>

remoteVars == <<agentUp, wsIn, nEvents, agentAudio>>

peerVars == <<rx, eof, peerFrames, torn>>

ingestVars == <<pc_r, need, frame_count, nKeepalive, exit_r, hangupSeen, consumed>>

egressVars == <<pc_s, text, audio_chunks, cause, audio_for_asterisk, offset,
                total_sent, chunks_sent, exit_s>>

transcoderVars == <<tc_arg, tc_buf, tc_hist, tc_raised>>

sessionVars == <<hc, connected, agentVars, remoteVars, toAgent, peerVars, writerClosed,
                 toAsterisk, ingestVars, egressVars>>

serverVars == <<sessions, objects>>

supervisorVars == <<active_supervisors, conversation_history, sup_tasks, sup_calls>>

otherVars == <<serverVars, supervisorVars>>

vars == <<sessionVars, transcoderVars, otherVars>>

\* a session as handle_connection finds it: nothing connected, nothing read
Idle ==
    /\ hc = "connect"
    /\ connected = "pending"
    /\ ws = "none"
    /\ user_input_audio_format = None
    /\ agent_output_audio_format = None
    /\ agentUp = FALSE
    /\ wsIn = <<>>
    /\ nEvents = 0
    /\ agentAudio = <<>>
    /\ toAgent = <<>>
    /\ rx = <<>>
    /\ eof = FALSE
    /\ peerFrames = <<>>
    /\ torn = FALSE
    /\ consumed = 0
    /\ writerClosed = FALSE
    /\ toAsterisk = <<>>
    /\ pc_r = "idle"
    /\ need = 0
    /\ frame_count = 0
    /\ nKeepalive = 0
    /\ exit_r = "none"
    /\ hangupSeen = FALSE
    /\ pc_s = "idle"
    /\ text = <<>>
    /\ audio_chunks = <<>>
    /\ cause = "none"
    /\ audio_for_asterisk = <<>>
    /\ offset = 0
    /\ total_sent = 0
    /\ chunks_sent = 0
    /\ exit_s = "none"

\* the connections a server may accept, and the calls a supervisor may be given
Conns == 1..MaxConns

CallIds == {"call-1", "call-2"}

\* a dict with no key
EmptyDict == [k \in {} |-> 0]

\* no connection accepted yet; SupervisorAI.__init__: two empty dicts
Elsewhere ==
    /\ sessions = [c \in Conns |->
                     [stage |-> "none", elevenlabs |-> 0, frame_count |-> 0,
                      writerClosed |-> FALSE]]
    /\ objects = <<>>
    /\ active_supervisors = EmptyDict
    /\ conversation_history = EmptyDict
    /\ sup_tasks = <<>>
    /\ sup_calls = <<>>

Init ==
    /\ Idle
    /\ Elsewhere
    /\ tc_arg = <<>>
    /\ tc_buf = <<>>
    /\ tc_hist = <<>>
    /\ tc_raised = FALSE

(***************************************************************************)
(* The telephony peer.  It sends its next frame when the bridge has read   *)
(* what was sent before (or waits for more), and it may close the stream,  *)
(* also in the middle of a frame.                                          *)
(***************************************************************************)
\* the number of bytes the pending read of receive_from_asterisk asks for
Wanted ==
    CASE pc_r \in {"idle", "uuid_hdr", "hdr"} -> 3
      [] pc_r \in {"uuid_body", "audio_body"} -> need
      [] OTHER -> 0

\* the frames of the peer and the events of the agent in one run are bounded together
InputsLeft == Len(peerFrames) + (IF torn THEN 1 ELSE 0) + nEvents < MaxInputs

\* the audio of the peer's next Audio frame: two bytes, then none, in turn
NextPayload ==
    IF Cardinality({i \in DOMAIN peerFrames : peerFrames[i].type = AUDIO}) % 2 = 0
    THEN <<10, 200>> ELSE <<>>

PeerSend(f) ==
    /\ ~eof /\ ~writerClosed
    /\ InputsLeft
    /\ Len(rx) < Wanted
    /\ f.type = AUDIO => f.payload = NextPayload
    /\ rx' = rx \o encodeFrame(f.type, f.payload)
    /\ peerFrames' = Append(peerFrames, f)
    /\ UNCHANGED <<hc, connected, agentVars, remoteVars, toAgent, eof, torn,
                   writerClosed, toAsterisk, ingestVars, egressVars, transcoderVars, otherVars>>

PeerClose ==
    /\ ~eof /\ ~writerClosed
    /\ pc_r # "done"
    /\ eof' = TRUE
    /\ UNCHANGED <<hc, connected, agentVars, remoteVars, toAgent, rx, peerFrames, torn,
                   writerClosed, toAsterisk, ingestVars, egressVars, transcoderVars, otherVars>>

\* the peer closes the stream after the first k bytes of an Audio frame
PeerTear(k) ==
    /\ ~eof /\ ~writerClosed
    /\ pc_r # "done"
    /\ InputsLeft
    /\ Len(rx) < Wanted
    /\ rx' = rx \o Take(encodeFrame(AUDIO, <<10, 200>>), k)
    /\ eof' = TRUE
    /\ torn' = TRUE
    /\ UNCHANGED <<hc, connected, agentVars, remoteVars, toAgent, peerFrames,
                   writerClosed, toAsterisk, ingestVars, egressVars, transcoderVars, otherVars>>

(***************************************************************************)
(* The remote agent.                                                       *)
(***************************************************************************)
\* the audio of the agent's next audio event: each chunk differs from the one before
NextAudio == IF Len(agentAudio) % 2 = 0 THEN ShortAudio ELSE OtherAudio

AgentEmit(e) ==
    /\ ws = "open" /\ connected = "yes" /\ agentUp
    /\ InputsLeft
    /\ wsIn = <<>>
    /\ e.type = "audio" => e.audio_base_64 = b64encode(NextAudio)
    /\ wsIn' = Append(wsIn, e)
    /\ nEvents' = nEvents + 1
    /\ agentAudio' = IF e.type = "audio" /\ e.audio_base_64 # <<>>
                     THEN Append(agentAudio, b64decode(e.audio_base_64))
                     ELSE agentAudio
    /\ UNCHANGED <<hc, connected, agentVars, agentUp, toAgent, peerVars, writerClosed,
                   toAsterisk, ingestVars, egressVars, transcoderVars, otherVars>>

\* the agent closes the WebSocket, or the connection to it is lost
AgentDrop ==
    /\ ws = "open" /\ connected = "yes" /\ agentUp
    /\ agentUp' = FALSE
    /\ UNCHANGED <<hc, connected, agentVars, wsIn, nEvents, agentAudio, toAgent,
                   peerVars, writerClosed, toAsterisk, ingestVars, egressVars, transcoderVars, otherVars>>

(***************************************************************************)
(* ElevenLabsConvAI.connect and AudioSocketServer.handle_connection.       *)
(***************************************************************************)
\* connect(): the fields of the agent object and the value returned, for each way
\* the attempt can go: websockets.connect raises ("refused"); the socket opens but
\* recv() or json.loads raises ("no_welcome"); the first message w is parsed
connect(outcome, w) ==
    CASE outcome = "refused" ->
           [ws |-> "none", fin |-> None, fout |-> None, ok |-> FALSE]
      [] outcome = "no_welcome" ->
           [ws |-> "open", fin |-> None, fout |-> None, ok |-> FALSE]
      [] outcome = "welcome" ->
           IF w.type = "conversation_initiation_metadata"
           THEN [ws |-> "open", fin |-> w.user_input_audio_format,
                 fout |-> w.agent_output_audio_format, ok |-> TRUE]
           ELSE [ws |-> "open", fin |-> None, fout |-> None, ok |-> TRUE]

\* (a variant of after_connect that does not look at what connect() returned)
after_connect_unchecked(ok) ==
    [hc |-> "gather", pc_r |-> "uuid_hdr", pc_s |-> "recv", writerClosed |-> FALSE]

\* handle_connection after connect(): close the transport and return, or create
\* the two tasks and wait for them
after_connect(ok) ==
    IF ok
    THEN [hc |-> "gather", pc_r |-> "uuid_hdr", pc_s |-> "recv", writerClosed |-> FALSE]
    ELSE [hc |-> "done", pc_r |-> "idle", pc_s |-> "idle", writerClosed |-> TRUE]

Connect(outcome, w) ==
    /\ hc = "connect"
    /\ LET c == connect(outcome, w)
           a == after_connect(c.ok)
       IN  /\ ws' = c.ws
           /\ user_input_audio_format' = c.fin
           /\ agent_output_audio_format' = c.fout
           /\ connected' = IF c.ok THEN "yes" ELSE "no"
           /\ agentUp' = (c.ws = "open")
           /\ hc' = a.hc
           /\ pc_r' = a.pc_r
           /\ pc_s' = a.pc_s
           /\ writerClosed' = a.writerClosed
    /\ UNCHANGED <<wsIn, nEvents, agentAudio, toAgent, peerVars, toAsterisk, need,
                   frame_count, nKeepalive, exit_r, hangupSeen, consumed, text,
                   audio_chunks, cause,
                   audio_for_asterisk, offset, total_sent, chunks_sent, exit_s, transcoderVars, otherVars>>

ConnectRefused == Connect("refused", [type |-> "none"])

ConnectNoWelcome == Connect("no_welcome", [type |-> "none"])

ConnectWelcome == \E w \in Welcomes : Connect("welcome", w)

\* (a variant of gather_done that returns when the first task completes)
gather_first_completed == pc_r = "done" \/ pc_s = "done"

\* (a variant of gather_done that waits for the receive task alone)
gather_receive_only == pc_r = "done"

\* asyncio.gather(receive_task, send_task): both tasks have completed
gather_done == pc_r = "done" /\ pc_s = "done"

\* ElevenLabsConvAI.close(): if self.ws: await self.ws.close()
close(w) == IF w = "open" THEN "closed" ELSE w

\* the finally block of handle_connection
Finally ==
    /\ hc = "gather"
    /\ gather_done
    /\ ws' = close(ws)
    /\ writerClosed' = TRUE
    /\ hc' = "done"
    /\ UNCHANGED <<connected, user_input_audio_format, agent_output_audio_format,
                   remoteVars, toAgent, peerVars, toAsterisk, ingestVars, egressVars,
                   transcoderVars, otherVars>>

(***************************************************************************)
(* AudioSocketServer.receive_from_asterisk (the ingest unit).              *)
(***************************************************************************)
\* ws.send() of one message: it raises when the connection is gone
send_ok == ws = "open" /\ agentUp

\* send_audio: {"user_audio_chunk": base64(audio_chunk)}
user_audio_chunk(payload) == [type |-> "user_audio_chunk", data |-> b64encode(payload)]

\* end_user_turn: {"type": "user_activity"}
user_activity == [type |-> "user_activity", data |-> <<>>]

\* the first frame: its header is read without a timeout, and its payload is read
\* only if the type is 0x01
IngestFirstHeader ==
    /\ hc = "gather" /\ pc_r = "uuid_hdr"
    /\ Len(rx) >= 3
    /\ LET h == unpack_BH(Take(rx, 3))
       IN  /\ pc_r' = IF h.type = UUID THEN "uuid_body" ELSE "hdr"
           /\ need' = IF h.type = UUID THEN h.length ELSE 0
    /\ rx' = Drop(rx, 3)
    /\ consumed' = consumed + 3
    /\ UNCHANGED <<hc, connected, agentVars, remoteVars, toAgent, eof, peerFrames, torn,
                   writerClosed, toAsterisk, frame_count, nKeepalive, exit_r, hangupSeen,
                   egressVars, transcoderVars, otherVars>>

IngestUuidBody ==
    /\ hc = "gather" /\ pc_r = "uuid_body"
    /\ Len(rx) >= need
    /\ rx' = Drop(rx, need)
    /\ consumed' = consumed + need
    /\ pc_r' = "hdr"
    /\ need' = 0
    /\ UNCHANGED <<hc, connected, agentVars, remoteVars, toAgent, eof, peerFrames, torn,
                   writerClosed, toAsterisk, frame_count, nKeepalive, exit_r, hangupSeen,
                   egressVars, transcoderVars, otherVars>>

\* where the frame loop goes after a header of type t: the payload of a frame that
\* is neither Audio nor Hangup is not read
after_header(t) ==
    IF t = AUDIO THEN "audio_body"
    ELSE IF t = HANGUP THEN "hangup"
    ELSE "hdr"

\* a header of the frame loop has arrived within the read timeout
IngestHeader ==
    /\ hc = "gather" /\ pc_r = "hdr"
    /\ Len(rx) >= 3
    /\ LET h == unpack_BH(Take(rx, 3))
       IN  /\ pc_r' = after_header(h.type)
           /\ need' = IF h.type = AUDIO THEN h.length ELSE 0
           /\ hangupSeen' = (hangupSeen \/ h.type = HANGUP)
    /\ rx' = Drop(rx, 3)
    /\ consumed' = consumed + 3
    /\ UNCHANGED <<hc, connected, agentVars, remoteVars, toAgent, eof, peerFrames, torn,
                   writerClosed, toAsterisk, frame_count, nKeepalive, exit_r, egressVars,
                   transcoderVars, otherVars>>

\* asyncio.TimeoutError of the header read: a frame of silence keeps the trunk up
IngestTimeout ==
    /\ hc = "gather" /\ pc_r = "hdr"
    /\ Len(rx) < 3 /\ ~eof
    /\ nKeepalive < MaxKeepalive
    /\ nKeepalive' = nKeepalive + 1
    /\ toAsterisk' = Append(toAsterisk, [by |-> "ingest", bytes |-> silence])
    /\ UNCHANGED <<hc, connected, agentVars, remoteVars, toAgent, peerVars, writerClosed,
                   pc_r, need, frame_count, exit_r, hangupSeen, consumed, egressVars,
                   transcoderVars, otherVars>>

\* (a variant of IngestAudio in which a failure of the conversion or of the
\* submission ends the unit)
IngestAudio_stops ==
    /\ hc = "gather" /\ pc_r = "audio_body"
    /\ Len(rx) >= need
    /\ LET audio_data == Take(rx, need)
           ok == to_agent_ok(user_input_audio_format, audio_data) /\ send_ok
       IN  /\ toAgent' = IF ok
                         THEN Append(toAgent, user_audio_chunk(
                                  to_agent_payload(user_input_audio_format, audio_data)))
                         ELSE toAgent
           /\ pc_r' = IF ok THEN "hdr" ELSE "done"
           /\ exit_r' = IF ok THEN exit_r ELSE "error"
    /\ rx' = Drop(rx, need)
    /\ consumed' = consumed + need
    /\ frame_count' = frame_count + 1
    /\ need' = 0
    /\ UNCHANGED <<hc, connected, agentVars, remoteVars, eof, peerFrames, torn,
                   writerClosed, toAsterisk, nKeepalive, hangupSeen, egressVars,
                   transcoderVars, otherVars>>

\* the payload of an Audio frame: converted and submitted; a failure of the
\* conversion or of the submission is caught and the loop goes on
IngestAudio ==
    /\ hc = "gather" /\ pc_r = "audio_body"
    /\ Len(rx) >= need
    /\ LET audio_data == Take(rx, need)
       IN  toAgent' = IF to_agent_ok(user_input_audio_format, audio_data) /\ send_ok
                      THEN Append(toAgent, user_audio_chunk(
                               to_agent_payload(user_input_audio_format, audio_data)))
                      ELSE toAgent
    /\ rx' = Drop(rx, need)
    /\ consumed' = consumed + need
    /\ frame_count' = frame_count + 1
    /\ pc_r' = "hdr"
    /\ need' = 0
    /\ UNCHANGED <<hc, connected, agentVars, remoteVars, eof, peerFrames, torn,
                   writerClosed, toAsterisk, nKeepalive, exit_r, hangupSeen, egressVars,
                   transcoderVars, otherVars>>

\* Hangup: end_user_turn(), then break
IngestHangup ==
    /\ hc = "gather" /\ pc_r = "hangup"
    /\ IF send_ok
       THEN /\ toAgent' = Append(toAgent, user_activity)
            /\ pc_r' = "tail"
            /\ exit_r' = exit_r
       ELSE /\ toAgent' = toAgent
            /\ pc_r' = "done"
            /\ exit_r' = "error"
    /\ UNCHANGED <<hc, connected, agentVars, remoteVars, peerVars, writerClosed,
                   toAsterisk, need, frame_count, nKeepalive, hangupSeen, consumed,
                   egressVars, transcoderVars, otherVars>>

\* (a variant of tail_signals that signals whatever the frame count)
tail_signals_always(n) == TRUE

\* after the loop: if frame_count > 0: end_user_turn()
tail_signals(n) == n > 0

IngestTail ==
    /\ hc = "gather" /\ pc_r = "tail"
    /\ IF tail_signals(frame_count) /\ ~send_ok
       THEN /\ toAgent' = toAgent
            /\ exit_r' = "error"
       ELSE /\ toAgent' = IF tail_signals(frame_count)
                          THEN Append(toAgent, user_activity) ELSE toAgent
            /\ exit_r' = "hangup"
    /\ pc_r' = "done"
    /\ UNCHANGED <<hc, connected, agentVars, remoteVars, peerVars, writerClosed,
                   toAsterisk, need, frame_count, nKeepalive, hangupSeen, consumed,
                   egressVars, transcoderVars, otherVars>>

\* readexactly() at the end of the stream raises IncompleteReadError, which leaves
\* the function past the code after the loop
IngestEOF ==
    /\ hc = "gather" /\ pc_r \in {"uuid_hdr", "uuid_body", "hdr", "audio_body"}
    /\ Len(rx) < Wanted /\ eof
    /\ rx' = <<>>
    /\ consumed' = consumed + Len(rx)
    /\ pc_r' = "done"
    /\ exit_r' = "eof"
    /\ UNCHANGED <<hc, connected, agentVars, remoteVars, toAgent, eof, peerFrames, torn,
                   writerClosed, toAsterisk, need, frame_count, nKeepalive, hangupSeen,
                   egressVars, transcoderVars, otherVars>>

(***************************************************************************)
(* ElevenLabsConvAI.receive_response and AudioSocketServer.send_to_asterisk *)
(* (the egress unit).                                                      *)
(***************************************************************************)
\* (a variant of breaks that also returns at an audio event)
breaks_at_audio(msg) == msg.type \in {"agent_response_end", "error", "audio"}

\* the messages that end the receive loop
breaks(msg) == msg.type \in {"agent_response_end", "error"}

\* (a variant of chunks_after that puts the new chunk in front)
chunks_after_prepend(chunks, msg) ==
    IF msg.type = "audio" /\ msg.audio_base_64 # <<>>
    THEN <<b64decode(msg.audio_base_64)>> \o chunks
    ELSE chunks

\* audio_chunks after msg: an audio event with a non-empty payload is decoded and kept
chunks_after(chunks, msg) ==
    IF msg.type = "audio" /\ msg.audio_base_64 # <<>>
    THEN Append(chunks, b64decode(msg.audio_base_64))
    ELSE chunks

\* (a variant of text_after that also takes the caller's transcript)
text_after_with_user(t, msg) ==
    IF msg.type \in {"agent_response", "transcript", "user_transcript"}
    THEN t \o msg.text ELSE t

\* text after msg: agent_response and transcript texts are concatenated
text_after(t, msg) ==
    IF msg.type \in {"agent_response", "transcript"} THEN t \o msg.text ELSE t

\* (a variant of reply_frame whose header always declares a full chunk)
reply_frame_full_length(audio, off) ==
    LET chunk_ulaw == SubSeq(audio, off + 1, Min(off + chunk_size, Len(audio)))
    IN  pack_BH(AUDIO, chunk_size) \o chunk_ulaw

\* one AudioSocket audio frame of the reply: struct.pack('!BH', 0x10, len) + chunk
reply_frame(audio, off) ==
    LET chunk_ulaw == SubSeq(audio, off + 1, Min(off + chunk_size, Len(audio)))
    IN  encodeFrame(AUDIO, chunk_ulaw)

\* the frames of the chunk loop: for offset in range(0, len(audio), chunk_size)
reply_frames(audio) ==
    [k \in 1..((Len(audio) + chunk_size - 1) \div chunk_size) |->
        reply_frame(audio, (k - 1) * chunk_size)]

\* (a variant of EgressStop in which an error is not caught by the unit)
EgressStop_uncaught(how, audio) ==
    /\ pc_s' = IF how = "error" THEN "raised" ELSE "done"
    /\ exit_s' = how
    /\ audio_for_asterisk' = audio
    /\ UNCHANGED <<toAsterisk, offset, total_sent, chunks_sent>>

\* the unit ends without (further) writing
EgressStop(how, audio) ==
    /\ pc_s' = "done"
    /\ exit_s' = how
    /\ audio_for_asterisk' = audio
    /\ UNCHANGED <<toAsterisk, offset, total_sent, chunks_sent>>

\* (a variant of EgressWriteChunk that counts a full chunk for every write)
EgressWriteChunk_counts_chunk(audio, off, okw) ==
    IF okw
    THEN /\ toAsterisk' = Append(toAsterisk, [by |-> "egress", bytes |-> reply_frame(audio, off)])
         /\ total_sent' = total_sent + chunk_size
         /\ chunks_sent' = chunks_sent + 1
         /\ offset' = off + chunk_size
         /\ audio_for_asterisk' = audio
         /\ pc_s' = "sleep"
         /\ exit_s' = exit_s
    ELSE EgressStop("error", audio)

\* writer.write(frame) of the chunk at offset, then drain and sleep; a write to a
\* transport whose peer is gone may raise
EgressWriteChunk(audio, off, okw) ==
    IF okw
    THEN /\ toAsterisk' = Append(toAsterisk, [by |-> "egress", bytes |-> reply_frame(audio, off)])
         /\ total_sent' = total_sent + (Min(off + chunk_size, Len(audio)) - off)
         /\ chunks_sent' = chunks_sent + 1
         /\ offset' = off + chunk_size
         /\ audio_for_asterisk' = audio
         /\ pc_s' = "sleep"
         /\ exit_s' = exit_s
    ELSE EgressStop("error", audio)

\* (a variant of EgressReturn in which an empty reply is an error of the unit)
EgressReturn_empty_fails(chunks, okw) ==
    LET full_audio == Concat(chunks)
    IN  IF chunks = <<>> \/ ~to_asterisk_ok(agent_output_audio_format, full_audio)
        THEN EgressStop("error", <<>>)
        ELSE LET audio == to_asterisk_audio(agent_output_audio_format, full_audio)
             IN  IF audio = <<>> THEN EgressStop("sent", audio)
                 ELSE EgressWriteChunk(audio, 0, okw)

\* receive_response has returned chunks: nothing to send, or convert the joined
\* audio and write its first chunk
EgressReturn(chunks, okw) ==
    LET full_audio == Concat(chunks)
    IN  IF chunks = <<>> THEN EgressStop("no_audio", <<>>)
        ELSE IF ~to_asterisk_ok(agent_output_audio_format, full_audio)
             THEN EgressStop("error", <<>>)
        ELSE LET audio == to_asterisk_audio(agent_output_audio_format, full_audio)
             IN  IF audio = <<>> THEN EgressStop("sent", audio)
                 ELSE EgressWriteChunk(audio, 0, okw)

WriteOutcomes == IF eof THEN BOOLEAN ELSE {TRUE}

\* one message of the agent arrives within the receive timeout; json.loads may
\* raise on it, which leaves receive_response and is caught by send_to_asterisk
EgressRecv ==
    /\ hc = "gather" /\ pc_s = "recv"
    /\ wsIn # <<>>
    /\ LET msg == Head(wsIn)
       IN  /\ wsIn' = Tail(wsIn)
           /\ text' = text_after(text, msg)
           /\ audio_chunks' = chunks_after(audio_chunks, msg)
           /\ IF msg.type = "malformed"
              THEN /\ cause' = "raised"
                   /\ EgressStop("error", <<>>)
              ELSE IF breaks(msg)
              THEN /\ cause' = msg.type
                   /\ \E okw \in WriteOutcomes :
                         EgressReturn(chunks_after(audio_chunks, msg), okw)
              ELSE /\ cause' = cause
                   /\ UNCHANGED <<pc_s, audio_for_asterisk, offset, total_sent,
                                  chunks_sent, exit_s, toAsterisk>>
    /\ UNCHANGED <<hc, connected, agentVars, agentUp, nEvents, agentAudio, toAgent,
                   peerVars, writerClosed, ingestVars, transcoderVars, otherVars>>

\* asyncio.TimeoutError of ws.recv(): receive_response returns what it has
EgressTimeout ==
    /\ hc = "gather" /\ pc_s = "recv"
    /\ wsIn = <<>> /\ agentUp
    /\ cause' = "timeout"
    /\ \E okw \in WriteOutcomes : EgressReturn(audio_chunks, okw)
    /\ UNCHANGED <<hc, connected, agentVars, remoteVars, toAgent, peerVars, writerClosed,
                   ingestVars, text, audio_chunks, transcoderVars, otherVars>>

\* ws.recv() raises ConnectionClosed: the exception leaves receive_response and
\* is caught by send_to_asterisk
EgressRecvClosed ==
    /\ hc = "gather" /\ pc_s = "recv"
    /\ wsIn = <<>> /\ ~agentUp
    /\ cause' = "closed"
    /\ EgressStop("error", <<>>)
    /\ UNCHANGED <<hc, connected, agentVars, remoteVars, toAgent, peerVars, writerClosed,
                   ingestVars, text, audio_chunks, transcoderVars, otherVars>>

\* after the sleep: the next chunk, or the end of the loop
EgressNext ==
    /\ hc = "gather" /\ pc_s = "sleep"
    /\ IF offset < Len(audio_for_asterisk)
       THEN \E okw \in WriteOutcomes : EgressWriteChunk(audio_for_asterisk, offset, okw)
       ELSE EgressStop("sent", audio_for_asterisk)
    /\ UNCHANGED <<hc, connected, agentVars, remoteVars, toAgent, peerVars, writerClosed,
                   ingestVars, text, audio_chunks, cause, transcoderVars, otherVars>>

(***************************************************************************)
(* The specification.                                                      *)
(***************************************************************************)
Next ==
    \/ ConnectRefused
    \/ ConnectNoWelcome
    \/ ConnectWelcome
    \/ Finally
    \/ \E f \in PeerFrames : PeerSend(f)
    \/ PeerClose
    \/ \E k \in {2, 4} : PeerTear(k)
    \/ \E e \in AgentEvents : AgentEmit(e)
    \/ AgentDrop
    \/ IngestFirstHeader
    \/ IngestUuidBody
    \/ IngestHeader
    \/ IngestTimeout
    \/ IngestAudio
    \/ IngestHangup
    \/ IngestTail
    \/ IngestEOF
    \/ EgressRecv
    \/ EgressTimeout
    \/ EgressRecvClosed
    \/ EgressNext

Spec == Init /\ [][Next]_vars

\* the same session with the event loop running every step of the bridge that
\* stays ready: the connect, the reads of the ingest unit and its timeout, the
\* receives of the egress unit and its timeout, its writes, and the cleanup
FairSpec ==
    /\ Init /\ [][Next]_vars
    /\ WF_vars(ConnectRefused \/ ConnectNoWelcome \/ ConnectWelcome)
    /\ WF_vars(IngestFirstHeader \/ IngestUuidBody \/ IngestHeader \/ IngestAudio
                  \/ IngestHangup \/ IngestTail \/ IngestEOF)
    /\ WF_vars(IngestTimeout)
    /\ WF_vars(EgressRecv \/ EgressTimeout \/ EgressRecvClosed \/ EgressNext)
    /\ WF_vars(Finally)

(***************************************************************************)
(* A call in which the caller speaks and then stays silent: the peer sends *)
(* the SessionId frame, one frame of speech and frames of silence, and     *)
(* neither hangs up nor closes; the agent sends nothing.                   *)
(***************************************************************************)
SpeechFrame == [type |-> AUDIO, payload |-> <<10, 200>>]

SilentFrame == [type |-> AUDIO, payload |-> <<255, 255>>]

\* the frames of the call, in the order the peer sends them
TalkScript ==
    <<[type |-> UUID, payload |-> <<7, 9>>], SpeechFrame>> \o [i \in 1..MaxSilent |-> SilentFrame]

PeerTalk ==
    /\ ~eof /\ ~writerClosed
    /\ Len(peerFrames) < Len(TalkScript)
    /\ Len(rx) < Wanted
    /\ LET f == TalkScript[Len(peerFrames) + 1]
       IN  /\ rx' = rx \o encodeFrame(f.type, f.payload)
           /\ peerFrames' = Append(peerFrames, f)
    /\ UNCHANGED <<hc, connected, agentVars, remoteVars, toAgent, eof, torn,
                   writerClosed, toAsterisk, ingestVars, egressVars, transcoderVars, otherVars>>

TalkNext ==
    \/ ConnectWelcome
    \/ PeerTalk
    \/ IngestFirstHeader
    \/ IngestUuidBody
    \/ IngestHeader
    \/ IngestTimeout
    \/ IngestAudio
    \/ EgressTimeout

TalkSpec == Init /\ [][TalkNext]_vars

(***************************************************************************)
(* One ElevenLabsConvAI object on its own: its methods called in any       *)
(* order, connect() at most once by the caller.                            *)
(***************************************************************************)
\* the ways an attempt to connect can go
ConnectOutcomes ==
    { [outcome |-> "refused", w |-> [type |-> "none"]],
      [outcome |-> "no_welcome", w |-> [type |-> "none"]] }
        \cup { [outcome |-> "welcome", w |-> w] : w \in Welcomes }

\* await agent.connect()
ObjConnect ==
    /\ hc = "connect" /\ connected = "pending" /\ ws = "none"
    /\ \E a \in ConnectOutcomes :
          LET c == connect(a.outcome, a.w)
          IN  /\ ws' = c.ws
              /\ user_input_audio_format' = c.fin
              /\ agent_output_audio_format' = c.fout
              /\ connected' = IF c.ok THEN "yes" ELSE "no"
              /\ agentUp' = (c.ws = "open")
    /\ UNCHANGED <<hc, wsIn, nEvents, agentAudio, toAgent, peerVars, writerClosed,
                   toAsterisk, ingestVars, egressVars, transcoderVars, otherVars>>

\* await agent.send_audio(chunk): if not self.ws: await self.connect(); then
\* self.ws.send(...), which raises on None and on a connection that is gone
ObjSendAudio ==
    /\ hc = "connect"
    /\ Len(toAgent) < MaxInputs
    /\ IF ws = "none"
       THEN \E a \in ConnectOutcomes :
              LET c == connect(a.outcome, a.w)
              IN  /\ ws' = c.ws
                  /\ user_input_audio_format' = c.fin
                  /\ agent_output_audio_format' = c.fout
                  /\ connected' = IF c.ok THEN "yes" ELSE "no"
                  /\ agentUp' = (c.ws = "open")
                  /\ toAgent' = IF c.ws = "open"
                                 THEN Append(toAgent, user_audio_chunk(<<10, 200>>))
                                 ELSE toAgent
       ELSE /\ toAgent' = IF send_ok THEN Append(toAgent, user_audio_chunk(<<10, 200>>))
                          ELSE toAgent
            /\ UNCHANGED <<ws, user_input_audio_format, agent_output_audio_format,
                           connected, agentUp>>
    /\ UNCHANGED <<hc, wsIn, nEvents, agentAudio, peerVars, writerClosed,
                   toAsterisk, ingestVars, egressVars, transcoderVars, otherVars>>

\* await agent.end_user_turn(): self.ws.send(...), no look at self.ws before
ObjEndUserTurn ==
    /\ hc = "connect"
    /\ Len(toAgent) < MaxInputs
    /\ send_ok
    /\ toAgent' = Append(toAgent, user_activity)
    /\ UNCHANGED <<hc, connected, agentVars, remoteVars, peerVars, writerClosed,
                   toAsterisk, ingestVars, egressVars, transcoderVars, otherVars>>

\* await agent.receive_response() with at most one message waiting and none
\* following within the timeout: the message is handled, then the loop breaks
\* or times out
ObjReceiveResponse ==
    /\ hc = "connect"
    /\ send_ok
    /\ IF wsIn = <<>>
       THEN /\ text' = <<>>
            /\ audio_chunks' = <<>>
            /\ cause' = "timeout"
            /\ wsIn' = wsIn
       ELSE /\ text' = IF Head(wsIn).type = "malformed" THEN text
                       ELSE text_after(<<>>, Head(wsIn))
            /\ audio_chunks' = IF Head(wsIn).type = "malformed" THEN audio_chunks
                               ELSE chunks_after(<<>>, Head(wsIn))
            /\ cause' = IF Head(wsIn).type = "malformed" THEN "raised"
                        ELSE IF breaks(Head(wsIn)) THEN Head(wsIn).type ELSE "timeout"
            /\ wsIn' = Tail(wsIn)
    /\ UNCHANGED <<hc, connected, agentVars, agentUp, nEvents, agentAudio, toAgent,
                   peerVars, writerClosed, toAsterisk, ingestVars, pc_s,
                   audio_for_asterisk, offset, total_sent, chunks_sent, exit_s,
                   transcoderVars, otherVars>>

\* await agent.close()
ObjClose ==
    /\ hc = "connect"
    /\ ws = "open"
    /\ ws' = close(ws)
    /\ UNCHANGED <<hc, connected, user_input_audio_format, agent_output_audio_format,
                   remoteVars, toAgent, peerVars, writerClosed, toAsterisk,
                   ingestVars, egressVars, transcoderVars, otherVars>>

ObjectNext ==
    \/ ObjConnect
    \/ ObjSendAudio
    \/ ObjEndUserTurn
    \/ ObjReceiveResponse
    \/ ObjClose
    \/ \E e \in AgentEvents : AgentEmit(e)
    \/ AgentDrop

ObjectSpec == Init /\ [][ObjectNext]_vars

(***************************************************************************)
(* The transcoder on its own: its functions called on a buffer, one after  *)
(* another, outside any session.                                           *)
(***************************************************************************)
\* a buffer of n bytes whose values run through the byte range
Ramp(n) == [i \in 1..n |-> (i * 7) % 256]

\* the buffers given: every single byte, and PCM16 buffers from none to 3200 bytes
TranscoderInputs ==
    { <<b>> : b \in 0..255 }
        \cup { <<>>, <<0, 1>>, ShortAudio, ShortAudio \o OtherAudio, Ramp(644), Ramp(3200) }

TranscoderInit ==
    /\ Idle
    /\ Elsewhere
    /\ tc_arg \in TranscoderInputs
    /\ tc_buf = tc_arg
    /\ tc_hist = <<>>
    /\ tc_raised = FALSE

\* one call: its result replaces the buffer, unless it raises
Call(name, ok, out) ==
    /\ Len(tc_hist) < MaxCalls /\ ~tc_raised
    /\ tc_hist' = Append(tc_hist, name)
    /\ tc_raised' = ~ok
    /\ tc_buf' = IF ok THEN out ELSE tc_buf
    /\ UNCHANGED <<tc_arg, sessionVars, otherVars>>

Call_ulaw_to_pcm16 == Call("ulaw_to_pcm16", TRUE, ulaw_to_pcm16(tc_buf))

Call_pcm16_to_ulaw ==
    Call("pcm16_to_ulaw", pcm16_to_ulaw_ok(tc_buf), pcm16_to_ulaw(tc_buf))

Call_resample_8k_to_16k ==
    Call("resample_8k_to_16k", resample_8k_to_16k_ok(tc_buf), resample_8k_to_16k(tc_buf))

Call_resample_16k_to_8k ==
    Call("resample_16k_to_8k", resample_16k_to_8k_ok(tc_buf), resample_16k_to_8k(tc_buf))

TranscoderNext ==
    \/ Call_ulaw_to_pcm16
    \/ Call_pcm16_to_ulaw
    \/ Call_resample_8k_to_16k
    \/ Call_resample_16k_to_8k

TranscoderSpec == TranscoderInit /\ [][TranscoderNext]_vars

(***************************************************************************)
(* A call in which every other Audio frame is empty: the peer sends the    *)
(* SessionId frame and then Audio frames with no audio and with two bytes  *)
(* in turn; the agent may go away.                                         *)
(***************************************************************************)
GapScript ==
    <<[type |-> UUID, payload |-> <<7, 9>>],
      [type |-> AUDIO, payload |-> <<>>],
      [type |-> AUDIO, payload |-> <<10, 200>>],
      [type |-> AUDIO, payload |-> <<>>],
      [type |-> AUDIO, payload |-> <<200, 10>>]>>

PeerGaps ==
    /\ ~eof /\ ~writerClosed
    /\ Len(peerFrames) < Len(GapScript)
    /\ Len(rx) < Wanted
    /\ LET f == GapScript[Len(peerFrames) + 1]
       IN  /\ rx' = rx \o encodeFrame(f.type, f.payload)
           /\ peerFrames' = Append(peerFrames, f)
    /\ UNCHANGED <<hc, connected, agentVars, remoteVars, toAgent, eof, torn,
                   writerClosed, toAsterisk, ingestVars, egressVars, transcoderVars, otherVars>>

GapNext ==
    \/ ConnectWelcome
    \/ PeerGaps
    \/ AgentDrop
    \/ IngestFirstHeader
    \/ IngestUuidBody
    \/ IngestHeader
    \/ IngestTimeout
    \/ IngestAudio

GapSpec == Init /\ [][GapNext]_vars

(***************************************************************************)
(* A reply of some length: the agent sends one audio event and then        *)
(* nothing; the egress unit converts the audio and writes it in chunks.    *)
(***************************************************************************)
\* the audio of the event: from four bytes to eight chunks of mu-law
ReplyAudios == { Ramp(n) : n \in {4, 160, 161, 320, 644, 1280} }

AgentSay ==
    /\ ws = "open" /\ connected = "yes" /\ agentUp
    /\ wsIn = <<>> /\ nEvents = 0
    /\ \E a \in ReplyAudios :
          /\ wsIn' = <<[type |-> "audio", audio_base_64 |-> b64encode(a),
                        text |-> <<>>, event_id |-> 1]>>
          /\ agentAudio' = <<a>>
    /\ nEvents' = 1
    /\ UNCHANGED <<hc, connected, agentVars, agentUp, toAgent, peerVars, writerClosed,
                   toAsterisk, ingestVars, egressVars, transcoderVars, otherVars>>

ChunkNext ==
    \/ ConnectWelcome
    \/ AgentSay
    \/ EgressRecv
    \/ EgressTimeout
    \/ EgressNext

ChunkSpec == Init /\ [][ChunkNext]_vars

(***************************************************************************)
(* receive_response under every kind of event: texts of the agent and of   *)
(* the caller, audio events with and without audio, the events that end    *)
(* the loop, and a loss of the connection.                                 *)
(***************************************************************************)
ReplyEvents ==
    AgentEvents \cup
    { [type |-> "agent_response", audio_base_64 |-> <<>>, text |-> <<"hello">>, event_id |-> 0],
      [type |-> "transcript", audio_base_64 |-> <<>>, text |-> <<"there">>, event_id |-> 0],
      [type |-> "user_transcript", audio_base_64 |-> <<>>, text |-> <<"hi">>, event_id |-> 0],
      [type |-> "audio", audio_base_64 |-> <<>>, text |-> <<>>, event_id |-> 3] }

AgentTell(e) ==
    /\ ws = "open" /\ connected = "yes" /\ agentUp
    /\ nEvents < MaxInputs
    /\ wsIn = <<>>
    /\ (e.type = "audio" /\ e.audio_base_64 # <<>>) => e.audio_base_64 = b64encode(NextAudio)
    /\ wsIn' = Append(wsIn, e)
    /\ nEvents' = nEvents + 1
    /\ agentAudio' = IF e.type = "audio" /\ e.audio_base_64 # <<>>
                     THEN Append(agentAudio, b64decode(e.audio_base_64))
                     ELSE agentAudio
    /\ UNCHANGED <<hc, connected, agentVars, agentUp, toAgent, peerVars, writerClosed,
                   toAsterisk, ingestVars, egressVars, transcoderVars, otherVars>>

ReplyNext ==
    \/ ConnectWelcome
    \/ \E e \in ReplyEvents : AgentTell(e)
    \/ AgentDrop
    \/ EgressRecv
    \/ EgressTimeout
    \/ EgressRecvClosed
    \/ EgressNext

ReplySpec == Init /\ [][ReplyNext]_vars

(***************************************************************************)
(* The server with several connections: asyncio.start_server runs one      *)
(* handle_connection per accepted connection.  Of a session only what the  *)
(* handler holds is kept: its ElevenLabsConvAI object, the frame counter   *)
(* of its ingest unit, its stage and its writer.                           *)
(***************************************************************************)
\* (a variant of new_agent in which every handler uses the first object)
shared_agent(objs) == 1

\* elevenlabs = ElevenLabsConvAI(): an object of its own, here the next identity
new_agent(objs) == Len(objs) + 1

\* handle_connection is entered for the connection c
Accept(c) ==
    /\ sessions[c].stage = "none"
    /\ objects' = Append(objects, [ws |-> "none", user_input_audio_format |-> None,
                                    agent_output_audio_format |-> None])
    /\ sessions' = [sessions EXCEPT ![c] =
                       [@ EXCEPT !.stage = "connect", !.elevenlabs = new_agent(objects)]]
    /\ UNCHANGED <<sessionVars, transcoderVars, supervisorVars>>

\* await elevenlabs.connect() of the connection c, and what follows from its result
SessConnect(c) ==
    /\ sessions[c].stage = "connect"
    /\ \E a \in ConnectOutcomes :
          LET r == connect(a.outcome, a.w)
              n == after_connect(r.ok)
          IN  /\ objects' = [objects EXCEPT ![sessions[c].elevenlabs] =
                                [ws |-> r.ws, user_input_audio_format |-> r.fin,
                                 agent_output_audio_format |-> r.fout]]
              /\ sessions' = [sessions EXCEPT ![c] =
                                 [@ EXCEPT !.stage = n.hc, !.writerClosed = n.writerClosed]]
    /\ UNCHANGED <<sessionVars, transcoderVars, supervisorVars>>

\* the ingest unit of the connection c counts an Audio frame
SessFrame(c) ==
    /\ sessions[c].stage = "gather"
    /\ sessions[c].frame_count < MaxInputs
    /\ sessions' = [sessions EXCEPT ![c] = [@ EXCEPT !.frame_count = @ + 1]]
    /\ UNCHANGED <<objects, sessionVars, transcoderVars, supervisorVars>>

\* both units of the connection c have ended, on a hangup or on a failure: the
\* finally block
SessFinally(c) ==
    /\ sessions[c].stage = "gather"
    /\ objects' = [objects EXCEPT ![sessions[c].elevenlabs] = [@ EXCEPT !.ws = close(@)]]
    /\ sessions' = [sessions EXCEPT ![c] =
                       [@ EXCEPT !.stage = "done", !.writerClosed = TRUE]]
    /\ UNCHANGED <<sessionVars, transcoderVars, supervisorVars>>

ServerNext ==
    \/ \E c \in Conns : Accept(c)
    \/ \E c \in Conns : SessConnect(c)
    \/ \E c \in Conns : SessFrame(c)
    \/ \E c \in Conns : SessFinally(c)

ServerSpec == Init /\ [][ServerNext]_vars

(***************************************************************************)
(* SupervisorAI: start_supervision, stop_supervision and add_transcript    *)
(* called in any order on one object.  None of them awaits between its     *)
(* reads and writes of the two dicts, so each call is one step.            *)
(***************************************************************************)
\* d[k] = v, and del d[k]
DictSet(d, k, v) == [x \in DOMAIN d \cup {k} |-> IF x = k THEN v ELSE d[x]]

DictDel(d, k) == [x \in DOMAIN d \ {k} |-> d[x]]

\* (a variant of already_supervised that never finds the call)
never_supervised(call_id) == FALSE

\* if call_id in self.active_supervisors
already_supervised(call_id) == call_id \in DOMAIN active_supervisors

start_supervision(call_id) ==
    /\ Len(sup_calls) < MaxOps
    /\ sup_calls' = Append(sup_calls, [op |-> "start_supervision", call_id |-> call_id])
    /\ IF already_supervised(call_id)
       THEN UNCHANGED <<active_supervisors, conversation_history, sup_tasks>>
       ELSE /\ sup_tasks' = Append(sup_tasks, [call_id |-> call_id, state |-> "running"])
            /\ active_supervisors' = DictSet(active_supervisors, call_id, Len(sup_tasks) + 1)
            /\ conversation_history' = DictSet(conversation_history, call_id, <<>>)
    /\ UNCHANGED <<sessionVars, transcoderVars, serverVars>>

stop_supervision(call_id) ==
    /\ Len(sup_calls) < MaxOps
    /\ sup_calls' = Append(sup_calls, [op |-> "stop_supervision", call_id |-> call_id])
    /\ IF call_id \in DOMAIN active_supervisors
       THEN /\ sup_tasks' = [sup_tasks EXCEPT ![active_supervisors[call_id]] =
                                [@ EXCEPT !.state = "cancelled"]]
            /\ active_supervisors' = DictDel(active_supervisors, call_id)
       ELSE UNCHANGED <<sup_tasks, active_supervisors>>
    /\ conversation_history' = DictDel(conversation_history, call_id)
    /\ UNCHANGED <<sessionVars, transcoderVars, serverVars>>

add_transcript(call_id, speaker, said) ==
    /\ Len(sup_calls) < MaxOps
    /\ sup_calls' = Append(sup_calls, [op |-> "add_transcript", call_id |-> call_id])
    /\ LET h == IF call_id \in DOMAIN conversation_history
                THEN conversation_history[call_id] ELSE <<>>
       IN  conversation_history' =
               DictSet(conversation_history, call_id,
                       Append(h, [speaker |-> speaker, text |-> said]))
    /\ UNCHANGED <<active_supervisors, sup_tasks, sessionVars, transcoderVars, serverVars>>

SupervisorNext ==
    \/ \E c \in CallIds : start_supervision(c)
    \/ \E c \in CallIds : stop_supervision(c)
    \/ \E c \in CallIds : add_transcript(c, "client", "hello")

SupervisorSpec == Init /\ [][SupervisorNext]_vars

(***************************************************************************)
(* What the session has sent, read off the two logs.                       *)
(***************************************************************************)
\* the number of turn-end signals (user_activity) sent to the agent
NumTurnEnd == Cardinality({i \in DOMAIN toAgent : toAgent[i].type = "user_activity"})

\* the audio submissions sent to the agent, in order
ForwardedAudio ==
    LET IsAudio(m) == m.type = "user_audio_chunk"
        sent == SelectSeq(toAgent, IsAudio)
    IN  [k \in 1..Len(sent) |-> sent[k].data]

\* the frames the egress unit has written, and their payloads joined
EgressFrames ==
    LET IsEgress(w) == w.by = "egress"
        written == SelectSeq(toAsterisk, IsEgress)
    IN  [k \in 1..Len(written) |-> written[k].bytes]

EgressPayload == Concat([k \in 1..Len(EgressFrames) |-> Drop(EgressFrames[k], 3)])

\* the payloads a frame decoder forwards for the frames fs: those of the Audio
\* frames before the first Hangup, every other frame being skipped whole
RECURSIVE RefForwarded(_)
RefForwarded(fs) ==
    IF fs = <<>> \/ Head(fs).type = HANGUP THEN <<>>
    ELSE IF Head(fs).type = AUDIO
         THEN <<Head(fs).payload>> \o RefForwarded(Tail(fs))
    ELSE RefForwarded(Tail(fs))

\* the number of stream bytes up to the end of the first Hangup frame of fs
RECURSIVE BytesThroughHangup(_)
BytesThroughHangup(fs) ==
    IF fs = <<>> THEN 0
    ELSE IF Head(fs).type = HANGUP THEN 3
    ELSE 3 + Len(Head(fs).payload) + BytesThroughHangup(Tail(fs))

\* the submissions expected for the frames the peer has sent
ExpectedAudio ==
    LET ps == RefForwarded(peerFrames)
    IN  [k \in 1..Len(ps) |-> b64encode(to_agent_payload(user_input_audio_format, ps[k]))]

\* a SessionId frame occurs only as the first frame of the stream
UuidOnlyFirst == \A i \in DOMAIN peerFrames : i > 1 => peerFrames[i].type # UUID

KnownTypes == {HANGUP, UUID, AUDIO}

\* the stream opens with the SessionId frame and holds frames of known types only
StartsWithUuid ==
    /\ peerFrames # <<>> /\ Head(peerFrames).type = UUID
    /\ UuidOnlyFirst
    /\ \A i \in DOMAIN peerFrames : peerFrames[i].type \in KnownTypes

\* a is b with some of its elements left out, the others in their order
RECURSIVE IsSubseq(_, _)
IsSubseq(a, b) ==
    IF a = <<>> THEN TRUE
    ELSE IF b = <<>> THEN FALSE
    ELSE IF Head(a) = Head(b) THEN IsSubseq(Tail(a), Tail(b))
    ELSE IsSubseq(a, Tail(b))

IsPrefix(a, b) == Len(a) <= Len(b) /\ a = SubSeq(b, 1, Len(a))

\* the bytes of the last k frames the peer has sent
UnreadFrames(k) ==
    Concat([i \in 1..k |->
        LET f == peerFrames[Len(peerFrames) - k + i] IN encodeFrame(f.type, f.payload)])

\* the place of a mu-law code on the scale of the values it stands for: the codes
\* 0x00..0x7F are the negative values, 0xFF..0x80 the positive ones, rising
CodeLevel(b) == IF b >= 128 THEN 255 - b ELSE b - 128

\* the payload lengths of the frames fs, summed
RECURSIVE PayloadTotal(_)
PayloadTotal(fs) ==
    IF fs = <<>> THEN 0 ELSE (Len(Head(fs)) - 3) + PayloadTotal(Tail(fs))

\* every frame of fs is an Audio frame whose header states its payload length,
\* which is at most 160
AudioFramesUpTo160(fs) ==
    \A k \in DOMAIN fs :
        /\ fs[k][1] = 16
        /\ fs[k][2] * 256 + fs[k][3] = Len(fs[k]) - 3
        /\ Len(fs[k]) - 3 <= 160

(***************************************************************************)
(* The claims.                                                             *)
(***************************************************************************)
\* C1: a session that forwards N >= 1 Audio frames and then receives a Hangup
\* frame sends the turn-end signal to the agent exactly once in total.
C1_TurnEndExactlyOnce ==
    (pc_r = "done" /\ exit_r = "hangup" /\ frame_count >= 1 /\ ~torn /\ StartsWithUuid)
        => NumTurnEnd = 1

\* C2: when the telephony stream ends without a Hangup frame after audio was
\* forwarded since the last turn end, a final turn-end signal has been sent by the
\* time the agent connection is closed: the last message to the agent is the
\* turn end.
C2_FinalTurnEndOnStreamEnd ==
    (hc = "done" /\ exit_r = "eof" /\ agentUp /\ toAgent # <<>> /\ StartsWithUuid)
        => toAgent[Len(toAgent)].type = "user_activity"

\* C3: a frame of unknown type is skipped with its declared length consumed, so
\* the Audio frames around it are forwarded as if it had not been sent.
C3_UnknownFrameSkipped ==
    (pc_r = "done" /\ agentUp /\ ~torn /\ UuidOnlyFirst
        /\ peerFrames # <<>> /\ Head(peerFrames).type \notin {AUDIO, HANGUP})
        => ForwardedAudio = ExpectedAudio

\* C4: a Hangup frame at any position, also as the first frame, terminates the
\* ingest unit: nothing after it is read and no audio after it is forwarded.
C4_HangupTerminatesIngest ==
    (~torn /\ UuidOnlyFirst /\ peerFrames # <<>>
        /\ Head(peerFrames).type \in {UUID, HANGUP}
        /\ \A i \in DOMAIN peerFrames : peerFrames[i].type \in KnownTypes)
        => /\ consumed <= BytesThroughHangup(peerFrames)
           /\ Len(ForwardedAudio) <= Len(RefForwarded(peerFrames))

C6_NoWriteAfterHangup ==
    [][(hangupSeen /\ StartsWithUuid) => toAsterisk' = toAsterisk]_vars

\* C7: on every exit path the agent connection and the telephony transport are
\* closed when handle_connection returns.
C7_BothClosedOnExit == hc = "done" => (writerClosed /\ ws # "open")

\* C8: if the agent session cannot be established the telephony transport is
\* closed at once and nothing was exchanged: no byte read, no frame written,
\* nothing sent to the agent, no unit started.
C8_ConnectFailureClosesUntouched ==
    connected = "no"
        => /\ hc = "done" /\ writerClosed
           /\ consumed = 0 /\ toAsterisk = <<>> /\ toAgent = <<>>
           /\ pc_r = "idle" /\ pc_s = "idle"

\* the connect failed while telephony bytes were already waiting
C8_Witness == connected = "no" /\ ws = "none" /\ writerClosed /\ rx # <<>>

\* C9: the egress unit goes on after the end of an agent turn, so all the audio
\* the agent has sent is written, in order (here with the telephony format
\* negotiated, where the written bytes are the agent's bytes).
C9_EgressMultiTurn ==
    (hc = "done" /\ connected = "yes" /\ agentUp
        /\ cause = "agent_response_end" /\ exit_s # "error"
        /\ agent_output_audio_format = "mulaw_8000")
        => EgressPayload = Concat(agentAudio)

C11_PingAcknowledged ==
    [][(pc_s = "recv" /\ wsIn # <<>> /\ Head(wsIn).type = "ping" /\ wsIn' # wsIn)
          => /\ Len(toAgent') = Len(toAgent) + 1
             /\ toAgent'[Len(toAgent')] = [type |-> "pong", data |-> <<Head(wsIn).event_id>>]]_vars

\* C12: once the egress unit has seen the agent fail (an error event, or the
\* connection closed), the ingest unit reads no further telephony byte and
\* nothing more is sent to the agent.
C12_AgentFailureStopsIngest ==
    [][(hc = "gather" /\ cause \in {"error", "closed"} /\ StartsWithUuid)
          => (consumed' = consumed /\ toAgent' = toAgent)]_vars

\* C13: each expiry of the header read timeout writes exactly one silence frame
\* (type 0x10, length 160, 160 zero bytes) to the telephony transport and leaves
\* the ingest unit waiting for a header; it sends nothing to the agent, reads
\* nothing, leaves the frame count unchanged and closes nothing.
C13_TimeoutWritesOneSilenceFrame ==
    [][nKeepalive' # nKeepalive
          => /\ hc = "gather" /\ pc_r = "hdr" /\ Len(rx) < 3
             /\ nKeepalive' = nKeepalive + 1
             /\ toAsterisk' = Append(toAsterisk,
                    [by |-> "ingest", bytes |-> <<16, 0, 160>> \o [i \in 1..160 |-> 0]])
             /\ pc_r' = "hdr" /\ hc' = hc
             /\ toAgent' = toAgent /\ frame_count' = frame_count
             /\ rx' = rx /\ consumed' = consumed
             /\ ws' = ws /\ writerClosed' = writerClosed /\ exit_r' = exit_r]_vars

\* a timeout has written its silence frame and the loop went on to read a frame
C13_Witness ==
    /\ nKeepalive = 1 /\ frame_count = 1 /\ pc_r = "hdr"
    /\ toAsterisk # <<>> /\ toAsterisk[1].by = "ingest" /\ Len(toAsterisk[1].bytes) = 163

\* C14: whenever the ingest unit waits for a frame header on a silent, open
\* telephony stream, the first header of the connection included, the read
\* timeout can expire and emit a keepalive.
C14_HeaderWaitBounded ==
    (hc = "gather" /\ pc_r \in {"uuid_hdr", "hdr"} /\ Len(rx) < 3 /\ ~eof
        /\ nKeepalive < MaxKeepalive)
        => ENABLED IngestTimeout

\* C15: audio is never reordered: the submissions to the agent are, in order,
\* conversions of the Audio frames the peer sent (some possibly lost); the chunks
\* the egress unit holds are the first of the agent's audio events in arrival
\* order, and the payload written to telephony is a leading part of the
\* conversion of those chunks joined in that order.
C15_AudioNeverReordered ==
    /\ (~torn /\ StartsWithUuid) => IsSubseq(ForwardedAudio, ExpectedAudio)
    /\ IsPrefix(audio_chunks, agentAudio)
    /\ to_asterisk_ok(agent_output_audio_format, Concat(audio_chunks))
          => IsPrefix(EgressPayload,
                      to_asterisk_audio(agent_output_audio_format, Concat(audio_chunks)))

\* two different audio events were received and written, first before second
C15_Witness ==
    /\ Len(audio_chunks) = 2 /\ audio_chunks[1] # audio_chunks[2]
    /\ agent_output_audio_format = "mulaw_8000"
    /\ EgressPayload = ShortAudio \o OtherAudio

\* C16: with the agent connection open, every Audio frame decoded has been
\* submitted to the agent exactly once: as many submissions as frames counted.
C16_EveryAudioFrameSubmitted ==
    (agentUp /\ ws = "open" /\ ~torn /\ StartsWithUuid)
        => Len(ForwardedAudio) = frame_count

\* C17 as stated: PCM16 at 16 kHz totalling B bytes is written as Audio frames
\* of at most 160 payload bytes whose payload lengths total B/2.
C17_EgressTotalHalf ==
    (tc_hist = <<"resample_16k_to_8k", "pcm16_to_ulaw">> /\ ~tc_raised)
        => /\ AudioFramesUpTo160(reply_frames(tc_buf))
           /\ 2 * PayloadTotal(reply_frames(tc_buf)) = Len(tc_arg)

\* C17 as amended: PCM16 at 16 kHz totalling B bytes, B a positive multiple of
\* 4, is converted without error and written as Audio frames of at most 160
\* payload bytes whose payload lengths total B/4 (800 bytes for B = 3200).
C17_EgressTotalQuarter ==
    (Len(tc_arg) % 4 = 0 /\ Len(tc_arg) > 0 /\ tc_hist # <<>>
        /\ IsPrefix(tc_hist, <<"resample_16k_to_8k", "pcm16_to_ulaw">>))
        => /\ ~tc_raised
           /\ Len(tc_hist) = 2
                 => /\ AudioFramesUpTo160(reply_frames(tc_buf))
                    /\ 4 * PayloadTotal(reply_frames(tc_buf)) = Len(tc_arg)
                    /\ Concat([k \in DOMAIN reply_frames(tc_buf) |->
                                  Drop(reply_frames(tc_buf)[k], 3)]) = tc_buf

\* 3200 bytes of PCM16 at 16 kHz were converted: 800 bytes, five frames
C17_Witness ==
    /\ Len(tc_arg) = 3200 /\ tc_hist = <<"resample_16k_to_8k", "pcm16_to_ulaw">>
    /\ Len(tc_buf) = 800 /\ Len(reply_frames(tc_buf)) = 5

\* C18: a frame written by the encoder is read back whole wherever it stands in
\* the stream: whenever the ingest unit is about to read a header, the bytes not
\* yet read are exactly the last frames the peer sent, whole.
C18_FrameRoundTrip ==
    (pc_r = "hdr" /\ ~torn /\ peerFrames # <<>> /\ Head(peerFrames).type = UUID
        /\ \A i \in DOMAIN peerFrames : peerFrames[i].type \in KnownTypes)
        => \E k \in 0..Len(peerFrames) : rx = UnreadFrames(k)

\* C19: for every PCM16 buffer x of an even number of bytes, resample_8k_to_16k(x)
\* has 2 * len(x) bytes and resample_16k_to_8k of that has len(x) bytes.
C19_ResampleLengthLaw ==
    (Len(tc_arg) % 2 = 0 /\ tc_hist # <<>>
        /\ IsPrefix(tc_hist, <<"resample_8k_to_16k", "resample_16k_to_8k">>))
        => /\ ~tc_raised
           /\ Len(tc_hist) = 1 => Len(tc_buf) = 2 * Len(tc_arg)
           /\ Len(tc_hist) = 2 => Len(tc_buf) = Len(tc_arg)

\* C20: for every byte b, pcm16_to_ulaw(ulaw_to_pcm16(b)) is a single byte at most
\* one code step from b, and it stands for the same linear value as b.
C20_UlawRoundTripWithinOneStep ==
    (Len(tc_arg) = 1 /\ tc_hist = <<"ulaw_to_pcm16", "pcm16_to_ulaw">>)
        => /\ ~tc_raised /\ Len(tc_buf) = 1
           /\ CodeLevel(tc_buf[1]) - CodeLevel(tc_arg[1]) \in {-1, 0, 1}
           /\ ulaw2linear(tc_buf[1]) = ulaw2linear(tc_arg[1])

\* the byte 0x7F (negative zero) went through both conversions and came back as
\* 0xFF (positive zero), one code step away
C20_Witness ==
    /\ tc_arg = <<127>> /\ tc_hist = <<"ulaw_to_pcm16", "pcm16_to_ulaw">>
    /\ tc_buf = <<255>>

(***************************************************************************)
(* Turn segmentation, format dispatch, buffering, timeouts and lifecycle.  *)
(***************************************************************************)
\* the mean of the squares of the linear values of a mu-law payload
MeanSquare(payload) ==
    LET sq[i \in 0..Len(payload)] ==
            IF i = 0 THEN 0
            ELSE sq[i - 1] + ulaw2linear(payload[i]) * ulaw2linear(payload[i])
    IN  IF payload = <<>> THEN 0 ELSE sq[Len(payload)] \div Len(payload)

\* the frame is speech: its RMS is at least 300
IsSpeech(f) == f.type = AUDIO /\ MeanSquare(f.payload) >= 300 * 300

\* the Audio frames decoded so far are one frame of speech and then n frames
\* below the threshold, every frame the peer has sent being read
SpokeThenSilent(n) ==
    /\ Len(peerFrames) = n + 2 /\ frame_count = n + 1 /\ pc_r = "hdr" /\ rx = <<>>
    /\ IsSpeech(peerFrames[2])
    /\ \A i \in 3..(n + 2) : peerFrames[i].type = AUDIO /\ ~IsSpeech(peerFrames[i])

\* C21: without any hangup, once the caller has spoken and the frames have then
\* stayed below the RMS threshold for the silence timeout (MaxSilent frames),
\* the turn-end signal has been sent to the agent, exactly once.
C21_TurnEndAfterSilence ==
    (~hangupSeen /\ agentUp /\ SpokeThenSilent(MaxSilent)) => NumTurnEnd = 1

\* the base64 texts of the payloads of the Audio frames up to the first Hangup
RawAudio ==
    LET ps == RefForwarded(peerFrames)
    IN  [k \in 1..Len(ps) |-> b64encode(ps[k])]

\* C22: when the negotiated format is not a supported encoding, the payload is
\* forwarded unchanged on both paths: the submissions are the Audio payloads, and
\* the egress unit, once done with audio received, the agent connection not
\* lost and the peer still there, has not failed and has written exactly the
\* agent's audio bytes.
C22_UnsupportedForwardedUnchanged ==
    /\ (user_input_audio_format = "opus_48000" /\ agentUp /\ ~torn /\ StartsWithUuid)
          => ForwardedAudio = SubSeq(RawAudio, 1, frame_count)
    /\ (agent_output_audio_format = "opus_48000" /\ pc_s = "done"
           /\ audio_chunks # <<>> /\ cause # "closed" /\ ~eof)
          => (exit_s = "sent" /\ EgressPayload = Concat(audio_chunks))

\* C23: with mulaw_8000 negotiated, the submissions to the agent are the Audio
\* frame payloads, one per frame decoded, and the payloads of the frames written
\* to telephony, joined, are the agent's audio bytes, joined: all of them once
\* the unit has sent, a prefix of them while it is sending.
C23_MulawIdentity ==
    /\ (user_input_audio_format = "mulaw_8000" /\ agentUp /\ ~torn /\ StartsWithUuid)
          => ForwardedAudio = SubSeq(RawAudio, 1, frame_count)
    /\ agent_output_audio_format = "mulaw_8000"
          => /\ IsPrefix(EgressPayload, Concat(audio_chunks))
             /\ (pc_s = "done" /\ exit_s = "sent") => EgressPayload = Concat(audio_chunks)

\* an Audio frame was submitted as it came and the agent's audio was written as
\* it came, under mulaw_8000
C23_Witness ==
    /\ user_input_audio_format = "mulaw_8000" /\ agent_output_audio_format = "mulaw_8000"
    /\ agentUp /\ ~torn /\ StartsWithUuid
    /\ ForwardedAudio = <<b64encode(<<10, 200>>)>>
    /\ pc_s = "done" /\ exit_s = "sent" /\ EgressPayload = ShortAudio

\* bytes submitted per telephony byte, and agent bytes per byte written, for a
\* format as negotiated
InWidth(fmt) == IF fmt = "pcm_8000" THEN 2 ELSE IF fmt = "pcm_16000" THEN 4 ELSE 1

OutWidth(fmt) ==
    IF fmt = "mulaw_8000" THEN 1 ELSE IF fmt = "pcm_8000" THEN 2 ELSE 4

\* C24: the two negotiated formats change only in the connect step; every
\* submission made afterwards has the size the user-input format gives the
\* payload, and the audio prepared for telephony has the size the agent-output
\* format gives the agent's audio.
C24_FormatsFixedAtConnect ==
    [][/\ (user_input_audio_format' # user_input_audio_format
             \/ agent_output_audio_format' # agent_output_audio_format)
          => (hc = "connect" /\ connected = "pending")
       /\ Len(ForwardedAudio') > Len(ForwardedAudio)
          => Len(b64decode(ForwardedAudio'[Len(ForwardedAudio')]))
                = InWidth(user_input_audio_format) * need
       /\ (pc_s = "recv" /\ pc_s' # "recv" /\ exit_s' \notin {"error", "no_audio"})
          => OutWidth(agent_output_audio_format) * Len(audio_for_asterisk')
                = Len(Concat(audio_chunks'))]_vars

\* under pcm_16000 a two-byte payload was submitted as eight bytes and four bytes
\* of agent audio were written as one
C24_Witness ==
    /\ user_input_audio_format = "pcm_16000" /\ agent_output_audio_format = "pcm_16000"
    /\ Len(ForwardedAudio) = 1 /\ Len(b64decode(ForwardedAudio[1])) = 8
    /\ exit_s = "sent" /\ Len(Concat(audio_chunks)) = 4 /\ Len(EgressPayload) = 1

\* C25: the agent audio held in the bridge stays within a fixed bound, the bridge
\* not reading further agent events at the bound: while it reads, it holds fewer
\* audio events than the agent can send at all.
C25_AgentAudioBounded == pc_s = "recv" => Len(audio_chunks) < MaxInputs

\* C26: a receive timeout with no agent audio received ends the turn empty: the
\* step writes nothing to telephony, the egress unit ends without an error, the
\* ingest unit stays where it is and neither connection is closed.
C26_EmptyTurnOnTimeout ==
    [][(pc_s = "recv" /\ pc_s' # "recv" /\ cause' = "timeout" /\ audio_chunks = <<>>)
          => /\ toAsterisk' = toAsterisk
             /\ pc_s' = "done" /\ exit_s' = "no_audio"
             /\ pc_r' = pc_r /\ exit_r' = exit_r /\ frame_count' = frame_count
             /\ hc' = "gather" /\ ws' = ws /\ writerClosed' = writerClosed]_vars

\* the timeout came with no audio, and the ingest unit went on to forward a frame
\* on open connections
C26_Witness ==
    /\ cause = "timeout" /\ exit_s = "no_audio" /\ audio_chunks = <<>>
    /\ hc = "gather" /\ ws = "open" /\ ~writerClosed /\ agentUp
    /\ pc_r = "hdr" /\ frame_count = 1 /\ Len(ForwardedAudio) = 1
    /\ toAsterisk = <<>>

\* C27: the absence of agent events ends the listening for agent events only
\* after a turn end has been signaled to the agent.
C27_StallTimeoutNeedsTurnEnd ==
    (hc = "gather" /\ pc_s = "done" /\ cause = "timeout") => NumTurnEnd >= 1

\* C28: a Hangup frame before any Audio frame, on a connected session whose
\* agent is there: the turn end is sent once, the ingest unit ends without an
\* error, no audio submission is made, the agent connection stays open, and the
\* teardown follows as soon as the egress unit is done.
C28_TurnEndWithoutAudio ==
    (pc_r = "done" /\ hangupSeen /\ frame_count = 0 /\ agentUp /\ connected = "yes")
        => /\ exit_r = "hangup" /\ NumTurnEnd = 1 /\ ForwardedAudio = <<>>
           /\ hc = "gather" => (ws = "open" /\ ~writerClosed)
           /\ (hc = "gather" /\ pc_s = "done") => ENABLED Finally

\* the SessionId frame and a Hangup frame were read, and one turn end was sent
C28_Witness ==
    /\ pc_r = "done" /\ hangupSeen /\ frame_count = 0 /\ agentUp
    /\ Len(peerFrames) = 2 /\ peerFrames[1].type = UUID /\ peerFrames[2].type = HANGUP
    /\ toAgent = <<user_activity>> /\ exit_r = "hangup"

\* C29: on one agent object a connection is opened only by connect() itself:
\* no step in which a message goes to the agent, and no step after connect()
\* has returned, opens one.
C29_ConnectsAtMostOnce ==
    [][(ws # "open" /\ ws' = "open") => (connected = "pending" /\ toAgent' = toAgent)]_vars

\* the place of a handler state in the lifecycle
Rank(h) == IF h = "connect" THEN 0 ELSE IF h = "gather" THEN 1 ELSE 2

\* C30: the lifecycle only advances; a unit leaves its initial state only when
\* the session leaves Connecting and does not leave its final state; the session
\* is closed after bridging only with both units finished; and once it is closed
\* nothing is read from or written to the telephony transport or the agent
\* connection.
C30_LifecycleMonotonic ==
    [][/\ Rank(hc') >= Rank(hc)
       /\ (pc_r = "idle" /\ pc_r' # "idle") => (hc = "connect" /\ hc' = "gather")
       /\ (pc_s = "idle" /\ pc_s' # "idle") => (hc = "connect" /\ hc' = "gather")
       /\ pc_r' = "idle" => pc_r = "idle"
       /\ pc_s' = "idle" => pc_s = "idle"
       /\ pc_r = "done" => pc_r' = "done"
       /\ pc_s = "done" => pc_s' = "done"
       /\ (hc = "gather" /\ hc' = "done") => (pc_r = "done" /\ pc_s = "done")
       /\ hc = "done"
          => UNCHANGED <<toAsterisk, toAgent, rx, consumed, wsIn, ws, writerClosed,
                         pc_r, pc_s>>]_vars

\* a session went through all its stages: both units ran, finished and the
\* connections were closed
C30_Witness ==
    /\ hc = "done" /\ connected = "yes"
    /\ pc_r = "done" /\ pc_s = "done"
    /\ ws = "closed" /\ writerClosed
    /\ frame_count >= 1 /\ EgressFrames # <<>>

(***************************************************************************)
(* Errors inside the units, the written stream, chunking, defaults.        *)
(***************************************************************************)
\* C32: a unit is always at a place of its own code or has returned: an error
\* in a unit ends it (read failure, send failure at Hangup, receive failure,
\* malformed message, conversion or write failure of the reply) or costs a frame,
\* and with both units returned the cleanup of handle_connection is enabled.
C32_ErrorsStayInsideUnits ==
    /\ pc_r \in {"idle", "uuid_hdr", "uuid_body", "hdr", "audio_body", "hangup", "tail", "done"}
    /\ pc_s \in {"idle", "recv", "sleep", "done"}
    /\ exit_r \in {"eof", "error"} => pc_r = "done"
    /\ (exit_s = "error" \/ cause \in {"closed", "raised"}) => (pc_s = "done" /\ exit_s = "error")
    /\ (hc = "gather" /\ pc_r = "done" /\ pc_s = "done") => ENABLED Finally
    /\ (hc = "done" /\ connected = "yes") => (ws = "closed" /\ writerClosed)

\* the agent sent a message that does not parse and the peer closed the stream:
\* both units ended on their errors and the session was cleaned up
C32_Witness ==
    /\ cause = "raised" /\ exit_s = "error" /\ exit_r = "eof"
    /\ hc = "done" /\ ws = "closed" /\ writerClosed

\* the stream bs is whole Audio frames one after another
RECURSIVE WholeAudioFrames(_)
WholeAudioFrames(bs) ==
    IF bs = <<>> THEN TRUE
    ELSE /\ Len(bs) >= 3
         /\ bs[1] = 16
         /\ Len(bs) >= 3 + bs[2] * 256 + bs[3]
         /\ WholeAudioFrames(Drop(bs, 3 + bs[2] * 256 + bs[3]))

\* the bytes written to the telephony transport, in the order of the writes
WrittenStream == Concat([i \in DOMAIN toAsterisk |-> toAsterisk[i].bytes])

\* C35: each write to the telephony transport is one whole frame, type 0x10 and
\* a big-endian length equal to the number of payload bytes after it, so the
\* stream written is whole frames one after another, whichever unit wrote them.
C35_WrittenStreamWholeFrames ==
    /\ \A i \in DOMAIN toAsterisk :
          LET b == toAsterisk[i].bytes
          IN  Len(b) >= 3 /\ b[1] = 16 /\ b[2] * 256 + b[3] = Len(b) - 3
    /\ WholeAudioFrames(WrittenStream)

\* a keepalive frame of the ingest unit and a reply frame of the egress unit were
\* both written, the reply frame shorter than a full chunk
C35_Witness ==
    /\ \E i, j \in DOMAIN toAsterisk :
          /\ toAsterisk[i].by = "ingest" /\ toAsterisk[j].by = "egress"
          /\ Len(toAsterisk[j].bytes) < 163
    /\ Len(WrittenStream) > 163

\* C37: when connect returned success on a first message that is not the
\* initiation metadata, the message is gone from the connection, both formats are
\* unset, every Audio payload is submitted as it came and the agent's audio is
\* written after the pcm_16000 conversion.
C37_DefaultsWithoutMetadata ==
    (connected = "yes" /\ user_input_audio_format = None)
        => /\ agent_output_audio_format = None
           /\ hc = "gather" /\ nEvents = 0 => wsIn = <<>>
           /\ (agentUp /\ ~torn /\ StartsWithUuid)
                 => ForwardedAudio = SubSeq(RawAudio, 1, frame_count)
           /\ (pc_s = "done" /\ exit_s = "sent")
                 => EgressPayload = pcm16_to_ulaw(resample_16k_to_8k(Concat(audio_chunks)))

\* connect succeeded without metadata; a frame was submitted as it came and four
\* bytes of agent audio were written as one
C37_Witness ==
    /\ connected = "yes" /\ user_input_audio_format = None /\ agent_output_audio_format = None
    /\ agentUp /\ ~torn /\ StartsWithUuid
    /\ ForwardedAudio = <<b64encode(<<10, 200>>)>>
    /\ pc_s = "done" /\ exit_s = "sent"
    /\ Len(Concat(audio_chunks)) = 4 /\ Len(EgressPayload) = 1

\* the payloads of the first n Audio frames the peer has sent
AudioPayloads(n) == SubSeq(RefForwarded(peerFrames), 1, n)

\* what a loop that loses only the frames it cannot convert submits for the
\* payloads ps under the format fmt
RECURSIVE SubmittedFor(_, _)
SubmittedFor(fmt, ps) ==
    IF ps = <<>> THEN <<>>
    ELSE (IF to_agent_ok(fmt, Head(ps))
          THEN <<b64encode(to_agent_payload(fmt, Head(ps)))>> ELSE <<>>)
         \o SubmittedFor(fmt, Tail(ps))

\* C33: a frame whose conversion or submission fails is lost alone: the ingest
\* unit has not ended on it, and while the agent is there the submissions are
\* those of every decoded frame that converts, in order, also of the frames
\* after one that failed.
C33_OnlyFailingFrameLost ==
    /\ (~eof /\ ~hangupSeen) => (pc_r # "done" /\ exit_r = "none")
    /\ (agentUp /\ ~torn /\ StartsWithUuid)
          => ForwardedAudio = SubmittedFor(user_input_audio_format, AudioPayloads(frame_count))

\* under pcm_16000 the two empty frames failed to convert and the two frames
\* after them were submitted, in order
C33_Witness ==
    /\ user_input_audio_format = "pcm_16000" /\ agentUp
    /\ frame_count = 4 /\ pc_r = "hdr"
    /\ Len(ForwardedAudio) = 2 /\ ForwardedAudio[1] # ForwardedAudio[2]

\* C36: converted agent audio of L > 0 bytes, once sent, has been written as
\* ceil(L / 160) Audio frames, each of 160 payload bytes but the last, which has
\* 1 to 160; the payloads joined are the converted audio and the counter of
\* bytes sent is L.
C36_ChunkedInFullFrames ==
    (pc_s = "done" /\ exit_s = "sent" /\ audio_for_asterisk # <<>>)
        => LET L == Len(audio_for_asterisk)
               n == Len(EgressFrames)
           IN  /\ n = (L + chunk_size - 1) \div chunk_size
               /\ \A k \in 1..(n - 1) : Len(EgressFrames[k]) = 3 + chunk_size
               /\ Len(EgressFrames[n]) - 3 \in 1..chunk_size
               /\ \A k \in 1..n : Take(EgressFrames[k], 3) = pack_BH(AUDIO, Len(EgressFrames[k]) - 3)
               /\ EgressPayload = audio_for_asterisk
               /\ total_sent = L
               /\ chunks_sent = n

\* 644 bytes of mu-law audio were written as four full frames and one of four bytes
C36_Witness ==
    /\ pc_s = "done" /\ exit_s = "sent"
    /\ Len(audio_for_asterisk) = 644 /\ Len(EgressFrames) = 5
    /\ Len(EgressFrames[5]) = 7 /\ total_sent = 644

\* C38: receive_response takes the events one at a time until the first
\* agent_response_end or error event or a timeout: an audio event with audio adds
\* its decoded payload at the end of the list, an agent_response or transcript
\* event adds its text at the end of the text, no other event adds anything;
\* once it has returned no event is taken and the results stay; and no step of it
\* changes the formats or the connection.
C38_ReceiveResponseResult ==
    [][/\ (pc_s = "recv" /\ wsIn # <<>> /\ wsIn' = Tail(wsIn) /\ Head(wsIn).type # "malformed")
          => LET m == Head(wsIn)
             IN  /\ audio_chunks' = IF m.type = "audio" /\ m.audio_base_64 # <<>>
                                    THEN audio_chunks \o <<b64decode(m.audio_base_64)>>
                                    ELSE audio_chunks
                 /\ text' = IF m.type = "agent_response" \/ m.type = "transcript"
                            THEN text \o m.text ELSE text
                 /\ (pc_s' = "recv") <=> (m.type \notin {"agent_response_end", "error"})
       /\ (pc_s = "recv" /\ pc_s' # "recv")
          => /\ cause' \in {"agent_response_end", "error", "timeout", "closed", "raised"}
             /\ cause' = "timeout" => (wsIn = <<>> /\ text' = text /\ audio_chunks' = audio_chunks)
       /\ pc_s \notin {"recv", "idle"}
          => /\ text' = text /\ audio_chunks' = audio_chunks /\ cause' = cause
             /\ wsIn # <<>> => wsIn' = wsIn
       /\ (pc_s = "recv" /\ hc = "gather" /\ hc' = "gather")
          => /\ ws' = ws
             /\ user_input_audio_format' = user_input_audio_format
             /\ agent_output_audio_format' = agent_output_audio_format]_vars

\* the agent's text, the caller's text and an audio event were received, then the
\* end of the response: the caller's text is not in the result
C38_Witness ==
    /\ pc_s # "recv" /\ cause = "agent_response_end"
    /\ text = <<"hello">> /\ Len(audio_chunks) = 1
    /\ nEvents = MaxInputs

\* the peer has sent a Hangup frame
HangupSent == \E i \in DOMAIN peerFrames : peerFrames[i].type = HANGUP

\* C34: after the telephony peer has sent a Hangup frame or closed the stream
\* of a session whose agent is connected, the session eventually is Closed, both
\* connections closed.
C34_ClosedAfterHangup ==
    ((HangupSent \/ eof) /\ connected = "yes")
        ~> (hc = "done" /\ writerClosed /\ ws = "closed")

\* what the session of the connection c holds: its stage, its frame counter, its
\* writer, and the connection and formats of its agent object
SessionView(c) ==
    [stage |-> sessions[c].stage,
     frame_count |-> sessions[c].frame_count,
     writerClosed |-> sessions[c].writerClosed,
     agent |-> IF sessions[c].elevenlabs = 0 THEN <<>>
               ELSE <<objects[sessions[c].elevenlabs]>>]

\* C31: an accepted connection has one agent object for good, no two connections
\* have the same one, and a step changes what one session holds at most: the
\* others keep their formats, frame counters, connections and stage.
C31_SessionsIndependent ==
    [][/\ \E c \in Conns : \A d \in Conns \ {c} : SessionView(d)' = SessionView(d)
       /\ \A c \in Conns :
             sessions[c].elevenlabs # 0 => sessions'[c].elevenlabs = sessions[c].elevenlabs
       /\ \A c, d \in Conns :
             (c # d /\ sessions'[c].elevenlabs # 0)
                => sessions'[c].elevenlabs # sessions'[d].elevenlabs]_vars

\* one session was torn down after a frame while the other, connected with
\* another format, counted its frames on an open connection
C31_Witness ==
    /\ sessions[1].stage = "done" /\ sessions[1].frame_count = 1
    /\ sessions[2].stage = "gather" /\ sessions[2].frame_count = 2
    /\ objects[sessions[1].elevenlabs].ws = "closed"
    /\ objects[sessions[2].elevenlabs].ws = "open"
    /\ objects[sessions[1].elevenlabs].user_input_audio_format
          # objects[sessions[2].elevenlabs].user_input_audio_format

\* the tasks created for call_id that have not been cancelled
LiveTasks(call_id) ==
    {t \in DOMAIN sup_tasks :
        sup_tasks[t].call_id = call_id /\ sup_tasks[t].state = "running"}

\* C39: after every call on the SupervisorAI object, each call_id has at most one
\* task not cancelled, the registered one; each registered call_id has a history
\* entry; a start_supervision for a registered call_id has changed neither tasks
\* nor history; and a stop_supervision has left the call_id without task and
\* without history entry.
C39_SupervisorBookkeeping ==
    [][LET call == sup_calls'[Len(sup_calls')]
       IN  /\ \A c \in CallIds :
                 LiveTasks(c)' = IF c \in DOMAIN active_supervisors'
                                 THEN {active_supervisors'[c]} ELSE {}
           /\ DOMAIN active_supervisors' \subseteq DOMAIN conversation_history'
           /\ (call.op = "start_supervision" /\ call.call_id \in DOMAIN active_supervisors)
                 => /\ sup_tasks' = sup_tasks
                    /\ active_supervisors' = active_supervisors
                    /\ conversation_history' = conversation_history
           /\ \A c \in CallIds :
                 (call.op = "stop_supervision" /\ call.call_id = c)
                    => /\ c \notin DOMAIN active_supervisors'
                       /\ c \notin DOMAIN conversation_history'
                       /\ LiveTasks(c)' = {}]_vars

\* a call was supervised, a transcript added, supervision started again to no
\* effect, and then stopped
C39_Witness ==
    /\ Len(sup_calls) = 4
    /\ \A i \in 1..4 : sup_calls[i].call_id = "call-1"
    /\ sup_calls[1].op = "start_supervision" /\ sup_calls[2].op = "add_transcript"
    /\ sup_calls[3].op = "start_supervision" /\ sup_calls[4].op = "stop_supervision"
    /\ Len(sup_tasks) = 1 /\ sup_tasks[1].state = "cancelled"
    /\ DOMAIN active_supervisors = {} /\ DOMAIN conversation_history = {}

====
